---- MODULE Spec2Model ----
(***************************************************************************)
(* A model of scripts/toolradar_scan.py: the discovery / scoring / merge   *)
(* pipeline of the tool radar, its three JSON documents and the failure    *)
(* paths of main().                                                        *)
(*                                                                         *)
(* Python strings are TLA+ strings; a JSON object is a function from field *)
(* names to values, so that a missing field is a field outside DOMAIN.     *)
(***************************************************************************)
EXTENDS Integers, Sequences, FiniteSets, TLC

VARIABLES
  \* ---- merge_tools applied to bounded inputs (SpecMerge)
  m_catalog,        \* the catalog that the next merge is given as existing
  m_phase,          \* "idle" | "merged" | "remerged"
  m_existing,       \* the argument existing of the last call
  m_new,            \* the argument new of the last call
  m_merged,         \* the returned merged list
  m_inserted,       \* the returned inserted count
  m_inserted_items, \* the returned inserted_items list
  \* ---- the candidate builder and classify applied to bounded inputs (SpecScore)
  s_phase,          \* "item" | "built" | "scores" | "classified"
  s_item,           \* a repository item of the search provider
  s_locals,         \* the locals the loop body computed for the item
  s_record,         \* the ToolRecord built for the item
  s_scores,         \* a score mapping given to classify
  s_class,          \* the tier classify returned
  \* ---- a run of main (Spec), and scout_github alone (SpecScout)
  pc,               \* where main is: "start", "scout", "merge", "probe", "save_tools",
                    \* "save_meta", "save_signals", "handler", "exited"
  exit_code,        \* the status the process exited with, once pc = "exited"
  error,            \* the exception on its way to the handler: [step, message]
  tools_json,       \* the catalog document
  meta_json,        \* the run metadata document
  signals_json,     \* the signal feed document
  search_pool,      \* what the search provider may answer a query with
  max_results,      \* args.max
  run_ts,           \* now_utc_iso() at the start of the run
  existing,         \* main's locals, as named there
  discovered,
  merged,
  inserted,
  inserted_items,
  broken,
  probe_i,          \* the index in merged[:80] of the record the validator is at
  query_i,          \* scout_github: the index of the query of build_queries()
  candidates,       \* scout_github: candidates
  tools_before,     \* history: the catalog document when the run started
  written,          \* history: the documents save_json has written in this run
  probes            \* history: the probes of this run, [i, link, outcome] each

mergeVars == <<m_catalog, m_phase, m_existing, m_new, m_merged, m_inserted, m_inserted_items>>

scoreVars == <<s_phase, s_item, s_locals, s_record, s_scores, s_class>>

docVars == <<tools_json, meta_json, signals_json>>

scoutVars == <<search_pool, max_results, query_i, candidates, discovered>>

runVars == <<pc, exit_code, error, run_ts, existing, merged, inserted, inserted_items, broken,
             probe_i, tools_before, written, probes>>

mainVars == <<docVars, scoutVars, runVars>>

vars == <<mergeVars, scoreVars, mainVars>>

-----------------------------------------------------------------------------
(* The parts of the state a specification does not use stay idle *)

\* the JSON object {}
EmptyObj == [x \in {} |-> x]

\* nothing is being scored
ScoreIdle ==
  /\ s_phase = "idle"
  /\ s_item = EmptyObj
  /\ s_locals = EmptyObj
  /\ s_record = EmptyObj
  /\ s_scores = EmptyObj
  /\ s_class = ""

\* no merge_tools call is being examined
MergeIdle ==
  /\ m_catalog = <<>>
  /\ m_phase = "off"
  /\ m_existing = <<>>
  /\ m_new = <<>>
  /\ m_merged = <<>>
  /\ m_inserted = 0
  /\ m_inserted_items = <<>>

\* no run of main is going on
MainIdle ==
  /\ pc = "off"
  /\ exit_code = 0
  /\ error = EmptyObj
  /\ tools_json = [kind |-> "absent", value |-> <<>>]
  /\ meta_json = [kind |-> "absent", value |-> <<>>]
  /\ signals_json = [kind |-> "absent", value |-> <<>>]
  /\ search_pool = {}
  /\ max_results = 0
  /\ run_ts = 0
  /\ existing = <<>>
  /\ discovered = <<>>
  /\ merged = <<>>
  /\ inserted = 0
  /\ inserted_items = <<>>
  /\ broken = <<>>
  /\ probe_i = 0
  /\ query_i = 0
  /\ candidates = <<>>
  /\ tools_before = [kind |-> "absent", value |-> <<>>]
  /\ written = {}
  /\ probes = <<>>

-----------------------------------------------------------------------------
(* Strings *)

\* The characters the model's strings use, in code point order.
Chars == "\t -/0123456789ABCDEFGHIJKLMNOPQRSTUVWXYZabcdefghijklmnopqrstuvwxyz"

UpperChars == "ABCDEFGHIJKLMNOPQRSTUVWXYZ"
LowerChars == "abcdefghijklmnopqrstuvwxyz"

CharAt(s, i) == SubSeq(s, i, i)

\* ord(c) for every character of Chars, up to an order-preserving renumbering
OrdOf == [i \in 1..Len(Chars) |-> CharAt(Chars, i)]

CharSet == {OrdOf[i] : i \in DOMAIN OrdOf}

CodePoint == [c \in CharSet |-> CHOOSE i \in DOMAIN OrdOf : OrdOf[i] = c]

Ord(c) == CodePoint[c]

\* what \s matches and str.strip() strips
IsSpace(c) == c \in {" ", "\t"}

\* c.lower() for every character of Chars
LowerTable ==
  [c \in CharSet |->
     IF \E i \in 1..Len(UpperChars) : CharAt(UpperChars, i) = c
     THEN CharAt(LowerChars, CHOOSE i \in 1..Len(UpperChars) : CharAt(UpperChars, i) = c)
     ELSE c]

LowerChar(c) == LowerTable[c]

RECURSIVE Lower(_)
\* str.lower()
Lower(s) == IF s = "" THEN "" ELSE LowerChar(CharAt(s, 1)) \o Lower(SubSeq(s, 2, Len(s)))

RECURSIVE LStrip(_)
LStrip(s) == IF s # "" /\ IsSpace(CharAt(s, 1)) THEN LStrip(SubSeq(s, 2, Len(s))) ELSE s

RECURSIVE RStrip(_)
RStrip(s) == IF s # "" /\ IsSpace(CharAt(s, Len(s))) THEN RStrip(SubSeq(s, 1, Len(s) - 1)) ELSE s

\* str.strip()
Strip(s) == RStrip(LStrip(s))

RECURSIVE CollapseSpaces(_)
\* re.sub(r"\s+", " ", s): every maximal run of whitespace becomes one space
CollapseSpaces(s) ==
  IF s = "" THEN ""
  ELSE IF IsSpace(CharAt(s, 1))
       THEN " " \o CollapseSpaces(LStrip(s))
       ELSE CharAt(s, 1) \o CollapseSpaces(SubSeq(s, 2, Len(s)))

normalize_name(name) == CollapseSpaces(Lower(Strip(name)))

RECURSIVE StrLess(_, _)
\* a < b on Python strings: lexicographic by code point
StrLess(a, b) ==
  IF b = "" THEN FALSE
  ELSE IF a = "" THEN TRUE
  ELSE IF CharAt(a, 1) = CharAt(b, 1) THEN StrLess(SubSeq(a, 2, Len(a)), SubSeq(b, 2, Len(b)))
  ELSE Ord(CharAt(a, 1)) < Ord(CharAt(b, 1))

\* k in t
Contains(t, k) == \E i \in 1..(Len(t) - Len(k) + 1) : SubSeq(t, i, i + Len(k) - 1) = k

-----------------------------------------------------------------------------
(* JSON objects *)

\* d.get(f, default)
Get(d, f, default) == IF f \in DOMAIN d THEN d[f] ELSE default

\* bool(d.get(f)) for a string or list field: missing and empty are falsy
Truthy(d, f) == f \in DOMAIN d /\ Len(d[f]) > 0

\* (d.get(f) or default)
GetOr(d, f, default) == IF Truthy(d, f) THEN d[f] ELSE default

Range(s) == {s[i] : i \in DOMAIN s}

-----------------------------------------------------------------------------
(* Configuration *)

DIMENSIONS ==
  <<"Maturity", "Integration", "EmbeddedFit", "AuditTraceability", "AIValue", "TCO",
    "CommunitySupport">>

PHASE_KEYWORDS ==
  << <<"Stakeholder Needs / System Requirements", <<"requirements", "alm", "traceability", "reqif">> >>,
     <<"Architektur/Design", <<"mbse", "sysml", "model-based", "architecture", "simulation">> >>,
     <<"Implementierung", <<"static analysis", "linter", "code generation", "codegen", "compiler", "ide">> >>,
     <<"Integration & Test (Komponenten)", <<"unit test", "ci", "cd", "pipeline", "coverage", "testing">> >>,
     <<"System Integration & Validierung", <<"hil", "sil", "simulation", "gazebo", "isaac", "validation">> >>,
     <<"Release / Operations", <<"observability", "monitoring", "prometheus", "grafana", "deployment">> >>,
     <<"Safety & Security", <<"iso 26262", "iec 62304", "safety", "security", "vulnerability", "sast">> >>,
     <<"Data/AI Lifecycle", <<"mlops", "model registry", "drift", "training", "inference", "feature store">> >>,
     <<"Documentation & Audit", <<"doxygen", "sphinx", "audit", "traceability", "documentation">> >> >>

EMBEDDED_HINTS ==
  <<"embedded", "mcu", "rtos", "zephyr", "freertos", "arm", "stm32", "bare-metal", "firmware">>

INTEGRATION_HINTS ==
  <<"github actions", "jira", "gitlab", "jenkins", "docker", "kubernetes", "ros", "ros2", "cmake">>

AUDIT_HINTS == <<"trace", "audit", "compliance", "iso", "iec", "safety", "governance">>

AI_HINTS_ASSISTED == <<"llm", "genai", "copilot", "agent", "ai-powered", "assistant">>

AI_HINTS_CORE == <<"training", "inference", "mlops", "model registry", "drift", "synthetic data">>

-----------------------------------------------------------------------------
(* Text classifier and dimension scorer *)

\* any(k in t for k in keys)
AnyIn(keys, t) == \E i \in DOMAIN keys : Contains(t, keys[i])

\* sum(1 for k in hints if k in t)
Hits(hints, t) == Cardinality({i \in DOMAIN hints : Contains(t, hints[i])})

RECURSIVE MatchedPhases(_, _)
\* the phases whose keywords t holds, in the order of PHASE_KEYWORDS from the i-th on
MatchedPhases(t, i) ==
  IF i > Len(PHASE_KEYWORDS) THEN <<>>
  ELSE (IF AnyIn(PHASE_KEYWORDS[i][2], t) THEN <<PHASE_KEYWORDS[i][1]>> ELSE <<>>)
         \o MatchedPhases(t, i + 1)

infer_vmodel_phases(text) ==
  LET phases == MatchedPhases(Lower(text), 1)
  IN IF phases # <<>> THEN phases ELSE <<"Data/AI Lifecycle">>

infer_ai_involvement(text) ==
  LET t == Lower(text)
  IN IF AnyIn(AI_HINTS_CORE, t) THEN "core"
     ELSE IF AnyIn(AI_HINTS_ASSISTED, t) THEN "assisted"
     ELSE "none"

Min(a, b) == IF a < b THEN a ELSE b
Max(a, b) == IF a > b THEN a ELSE b

clamp(n, lo, hi) == Max(lo, Min(hi, n))

\* A timestamp of the search provider is [text, days]: text is "" (an empty
\* string), "garbage" (a string datetime.fromisoformat rejects) or "iso" (an
\* ISO-8601 instant, days whole days before now; a negative days is in the future).
NoTime == [text |-> "", days |-> 0]

DaysPerFourYears == 1461   \* 365.25 days a year

StaleSentinel == 99999

days_since(iso) == IF iso.text = "iso" THEN Max(0, iso.days) ELSE StaleSentinel

\* a float number of years as the fraction num / den
years_since(iso) ==
  IF iso.text = "iso" /\ iso.days > 0
  THEN [num |-> 4 * iso.days, den |-> DaysPerFourYears]
  ELSE [num |-> 0, den |-> DaysPerFourYears]

\* the first if/elif chain of score_maturity and score_community
StarBucket(stars) ==
  IF stars >= 5000 THEN 5
  ELSE IF stars >= 1000 THEN 4
  ELSE IF stars >= 200 THEN 3
  ELSE IF stars >= 50 THEN 2
  ELSE 1

\* score_maturity returning s as it is: the clamp is forgotten
score_maturity_unclamped(stars, age_years, updated_days) ==
  LET s1 == StarBucket(stars)
      s2 == IF age_years.num >= 5 * age_years.den THEN s1 + 1 ELSE s1
  IN IF updated_days > 365 THEN s2 - 2
     ELSE IF updated_days > 180 THEN s2 - 1
     ELSE IF updated_days < 30 THEN s2 + 1
     ELSE s2

score_maturity(stars, age_years, updated_days) ==
  LET s1 == StarBucket(stars)
      s2 == IF age_years.num >= 5 * age_years.den THEN s1 + 1 ELSE s1
      s3 == IF updated_days > 365 THEN s2 - 2
            ELSE IF updated_days > 180 THEN s2 - 1
            ELSE IF updated_days < 30 THEN s2 + 1
            ELSE s2
  IN clamp(s3, 0, 5)

score_community(stars, forks, open_issues) ==
  LET base1 == StarBucket(stars)
      base2 == IF forks >= 500 THEN base1 + 1 ELSE base1
      base3 == IF open_issues >= 500 THEN base2 - 1 ELSE base2
  IN clamp(base3, 0, 5)

\* the hit count to score table of score_embedded, score_integration, score_audit
HitScore(hits) ==
  IF hits >= 4 THEN 5
  ELSE IF hits = 3 THEN 4
  ELSE IF hits = 2 THEN 3
  ELSE IF hits = 1 THEN 2
  ELSE 1

score_embedded(text) == HitScore(Hits(EMBEDDED_HINTS, Lower(text)))

score_integration(text) == HitScore(Hits(INTEGRATION_HINTS, Lower(text)))

score_audit(text) == HitScore(Hits(AUDIT_HINTS, Lower(text)))

ai_value(ai_involvement) ==
  CASE ai_involvement = "none" -> 1
    [] ai_involvement = "assisted" -> 3
    [] ai_involvement = "core" -> 5
    [] OTHER -> 2

\* classify with its first two tests in the wrong order
classify_trial_first(scores) ==
  LET m == Get(scores, "Maturity", 0)
      a == Get(scores, "AIValue", 0)
  IN IF m >= 3 /\ a >= 3 THEN "Trial"
     ELSE IF m >= 4 /\ a >= 3 THEN "Adopt"
     ELSE IF m >= 2 THEN "Assess"
     ELSE "Hold"

classify(scores) ==
  LET m == Get(scores, "Maturity", 0)
      a == Get(scores, "AIValue", 0)
  IN IF m >= 4 /\ a >= 3 THEN "Adopt"
     ELSE IF m >= 3 /\ a >= 3 THEN "Trial"
     ELSE IF m >= 2 THEN "Assess"
     ELSE "Hold"

-----------------------------------------------------------------------------
(* Candidate builder: the body of scout_github's loop over items *)

\* (it.get(f) or default) for a string field
StrOr(it, f, default) == IF f \in DOMAIN it /\ it[f] # "" THEN it[f] ELSE default

\* int(it.get(f) or 0)
IntOr0(it, f) == IF f \in DOMAIN it THEN it[f] ELSE 0

\* (it.get(f) or "") for a timestamp field
TimeOr(it, f) == IF f \in DOMAIN it /\ it[f].text # "" THEN it[f] ELSE NoTime

\* the values the loop body computes before it assembles the record
ItemLocals(it) ==
  LET name == StrOr(it, "name", "Unknown")
      full_name == StrOr(it, "full_name", name)
      desc == StrOr(it, "description", "")
      created == TimeOr(it, "created_at")
      pushed == TimeOr(it, "pushed_at")
      blob == full_name \o " " \o desc
  IN [name |-> name,
      full_name |-> full_name,
      html_url |-> StrOr(it, "html_url", ""),
      homepage |-> StrOr(it, "homepage", ""),
      desc |-> desc,
      created |-> created,
      pushed |-> pushed,
      stars |-> IntOr0(it, "stargazers_count"),
      forks |-> IntOr0(it, "forks_count"),
      open_issues |-> IntOr0(it, "open_issues_count"),
      blob |-> blob,
      phases |-> infer_vmodel_phases(blob),
      ai |-> infer_ai_involvement(blob),
      updated_days |-> IF pushed.text # "" THEN days_since(pushed) ELSE StaleSentinel,
      age_years |-> IF created.text # "" THEN years_since(created) ELSE [num |-> 0, den |-> DaysPerFourYears]]

\* scores = {...}
ItemScores(l) ==
  [Maturity |-> score_maturity(l.stars, l.age_years, l.updated_days),
   Integration |-> score_integration(l.blob),
   EmbeddedFit |-> score_embedded(l.blob),
   AuditTraceability |-> score_audit(l.blob),
   AIValue |-> ai_value(l.ai),
   TCO |-> 5,
   CommunitySupport |-> score_community(l.stars, l.forks, l.open_issues)]

\* the record candidates.append(...) adds for item it of query q
BuildCandidate(it, q) ==
  LET l == ItemLocals(it)
      scores == ItemScores(l)
      evidence == <<l.html_url, IF l.homepage # "" THEN l.homepage ELSE l.html_url>>
  IN [ToolName |-> l.name,
      VendorOrganisation |-> IF "owner" \in DOMAIN it THEN Get(it.owner, "login", "Open Source")
                             ELSE "Open Source",
      ToolType |-> "Open Source",
      PrimaryUse |-> IF l.desc # "" THEN l.desc
                     ELSE "Open-source tool (discovered via GitHub search)",
      VModelPhases |-> l.phases,
      AIInvolvement |-> l.ai,
      Classification |-> classify(scores),
      EvidenceLinks |-> SubSeq(evidence, 1, 2),
      LastVerifiedDate |-> "today",
      UpdateSignal |-> <<"GitHubReleases">>,
      RiskFlags |-> <<"Unvalidated (auto-discovered)">>,
      Notes |-> "Discovered via GitHub search query: '" \o q \o "'. Scores are heuristic.",
      Repo |-> [full_name |-> l.full_name, url |-> l.html_url, stars |-> l.stars,
                forks |-> l.forks, open_issues |-> l.open_issues,
                pushed_at |-> l.pushed, created_at |-> l.created],
      Scores |-> scores]

-----------------------------------------------------------------------------
(* SpecScore: the candidate builder on bounded items, classify on bounded scores *)

StarsPool == {0, 49, 50, 200, 1000, 5000}
ForksPool == {0, 499, 500}
IssuesPool == {0, 499, 500}

PushedPool ==
  {NoTime, [text |-> "garbage", days |-> 0]}
    \cup {[text |-> "iso", days |-> n] : n \in {-1, 29, 30, 180, 181, 365, 366}}

CreatedPool ==
  {[text |-> "garbage", days |-> 0]}
    \cup {[text |-> "iso", days |-> n] : n \in {-3, 1826, 1827}}

DescPool ==
  { "",
    "Embedded RTOS firmware for STM32 and Zephyr",
    "docker and jenkins pipeline",
    "ros2 cmake jira gitlab",
    "MLOps training for ISO 26262 safety compliance governance",
    "an LLM agent with audit trace" }

\* items with every field the builder reads
FullItems ==
  { [name |-> "Foo", full_name |-> "acme/Foo", html_url |-> "https://github.com/acme/Foo",
     homepage |-> "", description |-> d, owner |-> [login |-> "acme"],
     created_at |-> c, pushed_at |-> p,
     stargazers_count |-> st, forks_count |-> f, open_issues_count |-> o] :
      d \in DescPool, c \in CreatedPool, p \in PushedPool,
      st \in StarsPool, f \in ForksPool, o \in IssuesPool }

\* items with fields missing
SparseItems ==
  { EmptyObj,
    [name |-> "Foo"],
    [name |-> "ACME Robotics Gazebo Simulation", stargazers_count |-> 1200, forks_count |-> 600,
     open_issues_count |-> 10, created_at |-> [text |-> "iso", days |-> 2192],
     pushed_at |-> [text |-> "iso", days |-> 10]],
    [full_name |-> "acme/bar", homepage |-> "https://bar.example", owner |-> EmptyObj,
     stargazers_count |-> 5000] }

ScoreItems == FullItems \cup SparseItems

\* score mappings with and without the two dimensions classify reads
ScoreMaps ==
  {[Maturity |-> m, AIValue |-> a] : m \in 0..5, a \in 0..5}
    \cup {[Maturity |-> m] : m \in 0..5}
    \cup {[AIValue |-> a] : a \in 0..5}
    \cup {EmptyObj}

InitScore ==
  /\ MergeIdle
  /\ MainIdle
  /\ s_locals = EmptyObj
  /\ s_record = EmptyObj
  /\ s_class = ""
  /\ \/ s_phase = "item" /\ s_item \in ScoreItems /\ s_scores = EmptyObj
     \/ s_phase = "scores" /\ s_item = EmptyObj /\ s_scores \in ScoreMaps

\* one pass of the loop body of scout_github over the item
Build ==
  /\ s_phase = "item"
  /\ s_phase' = "built"
  /\ s_locals' = ItemLocals(s_item)
  /\ s_record' = BuildCandidate(s_item, "embedded rtos tool")
  /\ s_scores' = s_record'.Scores
  /\ s_class' = s_record'.Classification
  /\ UNCHANGED s_item
  /\ UNCHANGED <<mergeVars, mainVars>>

\* classification = classify(scores)
Classify ==
  /\ s_phase = "scores"
  /\ s_phase' = "classified"
  /\ s_class' = classify(s_scores)
  /\ UNCHANGED <<s_item, s_locals, s_record, s_scores>>
  /\ UNCHANGED <<mergeVars, mainVars>>

NextScore == Build \/ Classify

SpecScore == InitScore /\ [][NextScore]_vars

-----------------------------------------------------------------------------
(* merge_tools *)

\* the sort key of merged.sort and uniq.sort
SortKey(x) == Lower(GetOr(x, "ToolName", ""))

\* list.sort(key=lambda x: (x.get("ToolName") or "").lower()), which is stable:
\* a record comes after the records of a smaller key and after the earlier records
\* of its own key
SortByName(s) ==
  LET keyed == {[i |-> i, key |-> SortKey(s[i])] : i \in DOMAIN s}
      placed == {[i |-> x.i,
                  place |-> 1 + Cardinality({y \in keyed : \/ StrLess(y.key, x.key)
                                                           \/ y.key = x.key /\ y.i < x.i})]
                 : x \in keyed}
  IN [p \in DOMAIN s |-> s[(CHOOSE x \in placed : x.place = p).i]]

\* a dict is the sequence of its (key, value) pairs in insertion order
HasKey(idx, k) == \E i \in DOMAIN idx : idx[i].k = k

\* idx[k] = v: a present key keeps its place and takes the new value
DictPut(idx, k, v) ==
  IF HasKey(idx, k)
  THEN [i \in DOMAIN idx |-> IF idx[i].k = k THEN [k |-> k, v |-> v] ELSE idx[i]]
  ELSE Append(idx, [k |-> k, v |-> v])

\* list(idx.values())
DictValues(idx) == [i \in DOMAIN idx |-> idx[i].v]

\* the records of a catalog that have a name, each with its index and its key
NamedRecords(exist) ==
  {[i |-> i, key |-> normalize_name(Get(exist[i], "ToolName", ""))]
     : i \in {j \in DOMAIN exist : Truthy(exist[j], "ToolName")}}

\* IndexExisting as a list would do it: every named record gets an entry of its own
IndexExisting_keeps_all(exist) ==
  LET named == SelectSeq(exist, LAMBDA t : Truthy(t, "ToolName"))
  IN [n \in DOMAIN named |->
        [k |-> normalize_name(Get(named[n], "ToolName", "")), v |-> named[n]]]

\* IndexExisting with the first of several colliding records kept, not the last
IndexExisting_first_wins(exist) ==
  LET named == NamedRecords(exist)
      first == {x \in named : \A y \in named : y.i < x.i => y.key # x.key}
      slots == {[key |-> x.key, value |-> exist[x.i],
                 slot |-> Cardinality({y \in first : y.i <= x.i})] : x \in first}
  IN [n \in 1..Cardinality(first) |->
        LET x == CHOOSE y \in slots : y.slot = n IN [k |-> x.key, v |-> x.value]]

\* {normalize_name(t.get("ToolName", "")): t for t in existing if t.get("ToolName")}:
\* a key takes its place in the dict at its first record and ends with the value
\* of its last record
IndexExisting(exist) ==
  LET named == NamedRecords(exist)
      first == {x \in named : \A y \in named : y.i < x.i => y.key # x.key}
      last(key) == CHOOSE x \in named : x.key = key /\ \A y \in named : y.key = key => y.i <= x.i
      slots == {[key |-> x.key, value |-> exist[last(x.key).i],
                 slot |-> Cardinality({y \in first : y.i <= x.i})] : x \in first}
  IN [n \in 1..Cardinality(first) |->
        LET x == CHOOSE y \in slots : y.slot = n IN [k |-> x.key, v |-> x.value]]

RECURSIVE MergeLoop_overwrites(_, _)
\* MergeLoop without the "k in idx" test: a rediscovered name replaces the record
MergeLoop_overwrites(st, new) ==
  IF new = <<>> THEN st
  ELSE LET c == Head(new)
           k == normalize_name(Get(c, "ToolName", ""))
       IN IF k = ""
          THEN MergeLoop_overwrites(st, Tail(new))
          ELSE MergeLoop_overwrites([idx |-> DictPut(st.idx, k, c),
                                     inserted |-> st.inserted + 1,
                                     inserted_items |-> Append(st.inserted_items, c)], Tail(new))

RECURSIVE MergeLoop_reports_skipped(_, _)
\* MergeLoop that counts and reports a candidate before deciding to skip it
MergeLoop_reports_skipped(st, new) ==
  IF new = <<>> THEN st
  ELSE LET c == Head(new)
           k == normalize_name(Get(c, "ToolName", ""))
           counted == [st EXCEPT !.inserted = @ + 1, !.inserted_items = Append(@, c)]
       IN IF k = "" \/ HasKey(st.idx, k)
          THEN MergeLoop_reports_skipped(counted, Tail(new))
          ELSE MergeLoop_reports_skipped([counted EXCEPT !.idx = DictPut(@, k, c)], Tail(new))

RECURSIVE MergeLoop(_, _)
\* the for c in new loop, from the state st = [idx, inserted, inserted_items]
MergeLoop(st, new) ==
  IF new = <<>> THEN st
  ELSE LET c == Head(new)
           k == normalize_name(Get(c, "ToolName", ""))
       IN IF k = "" \/ HasKey(st.idx, k)
          THEN MergeLoop(st, Tail(new))
          ELSE MergeLoop([idx |-> DictPut(st.idx, k, c),
                          inserted |-> st.inserted + 1,
                          inserted_items |-> Append(st.inserted_items, c)], Tail(new))

merge_tools(exist, new) ==
  LET st == MergeLoop([idx |-> IndexExisting(exist), inserted |-> 0, inserted_items |-> <<>>], new)
  IN [merged |-> SortByName(DictValues(st.idx)),
      inserted |-> st.inserted,
      inserted_items |-> st.inserted_items]

-----------------------------------------------------------------------------
(* SpecMerge: merge_tools on bounded catalogs and batches, run after run *)

MaxExisting == 2   \* longest catalog before the first run
MaxNew == 2        \* longest batch of candidates

SeqsUpTo(S, n) == UNION {[1..k -> S] : k \in 0..n}

\* records a catalog document may hold before the first run
ExistingPool ==
  { [ToolName |-> "Foo", Notes |-> "seed"],
    [ToolName |-> "foo", Notes |-> "seed"],
    [ToolName |-> "a b", Notes |-> "seed"],
    [ToolName |-> "", Notes |-> "seed"],
    [ToolName |-> "  ", Notes |-> "seed"],
    [Notes |-> "seed"] }

\* candidates a batch may hold
NewPool ==
  { [ToolName |-> "foo", Notes |-> "discovered"],
    [ToolName |-> "FOO ", Notes |-> "discovered"],
    [ToolName |-> "  Foo", Notes |-> "discovered"],
    [ToolName |-> "Foo", Notes |-> "discovered"],
    [ToolName |-> "Baz", Notes |-> "discovered"],
    [ToolName |-> "A \t b", Notes |-> "discovered"],
    [ToolName |-> " ", Notes |-> "discovered"] }

InitMerge ==
  /\ m_catalog \in SeqsUpTo(ExistingPool, MaxExisting)
  /\ m_phase = "idle"
  /\ m_existing = <<>>
  /\ m_new = <<>>
  /\ m_merged = <<>>
  /\ m_inserted = 0
  /\ m_inserted_items = <<>>
  /\ ScoreIdle
  /\ MainIdle

\* merged, inserted, inserted_items = merge_tools(exist, new); merged becomes the catalog
CallMerge(exist, new) ==
  \E r \in {merge_tools(exist, new)} :
     /\ m_existing' = exist
     /\ m_new' = new
     /\ m_merged' = r.merged
     /\ m_inserted' = r.inserted
     /\ m_inserted_items' = r.inserted_items
     /\ m_catalog' = r.merged

\* a run: a batch of candidates is merged into the catalog
Merge ==
  /\ m_phase = "idle"
  /\ \E n \in SeqsUpTo(NewPool, MaxNew) : CallMerge(m_catalog, n)
  /\ m_phase' = "merged"
  /\ UNCHANGED <<scoreVars, mainVars>>

\* the next run discovers the same candidates: they are merged into the previous output
Remerge ==
  /\ m_phase = "merged"
  /\ CallMerge(m_catalog, m_new)
  /\ m_phase' = "remerged"
  /\ UNCHANGED <<scoreVars, mainVars>>

\* the run is over: its locals are gone, the catalog stays for the next run
EndRun ==
  /\ m_phase \in {"merged", "remerged"}
  /\ m_phase' = "idle"
  /\ m_existing' = <<>>
  /\ m_new' = <<>>
  /\ m_merged' = <<>>
  /\ m_inserted' = 0
  /\ m_inserted_items' = <<>>
  /\ UNCHANGED m_catalog
  /\ UNCHANGED <<scoreVars, mainVars>>

NextMerge == Merge \/ Remerge \/ EndRun

SpecMerge == InitMerge /\ [][NextMerge]_vars

-----------------------------------------------------------------------------
(* scout_github *)

build_queries ==
  <<"embedded rtos tool",
    "embedded static analysis",
    "robotics simulation tool",
    "hil sil framework",
    "mlops tool open source",
    "requirements traceability open source",
    "prometheus exporter embedded",
    "doxygen sphinx documentation tool">>

RECURSIVE CollectItems(_, _, _, _)
\* for it in items: candidates.append(...); if len(candidates) >= max_results * 3: break
CollectItems(cands, items, q, max) ==
  IF items = <<>> THEN cands
  ELSE LET grown == Append(cands, BuildCandidate(Head(items), q))
       IN IF Len(grown) >= max * 3 THEN grown ELSE CollectItems(grown, Tail(items), q, max)

RECURSIVE DedupLoop(_, _, _, _)
\* for c in candidates: ... if k in seen: continue ... if len(uniq) >= max_results: break
DedupLoop(cands, seen, uniq, max) ==
  IF cands = <<>> THEN uniq
  ELSE LET c == Head(cands)
           k == normalize_name(c.ToolName)
       IN IF k \in seen THEN DedupLoop(Tail(cands), seen, uniq, max)
          ELSE IF Len(uniq) + 1 >= max THEN Append(uniq, c)
          ELSE DedupLoop(Tail(cands), seen \cup {k}, Append(uniq, c), max)

\* the tail of scout_github: dedup by ToolName, truncate, sort
DedupAndSort(cands, max) == SortByName(DedupLoop(cands, {}, <<>>, max))

\* the search provider is down, or answers with items, or with no "items" at all
SearchFails == [fails |-> TRUE]

\* data.get("items", [])
ItemsOf(data) == Get(data, "items", <<>>)

\* one pass of "for q in build_queries()": the search call and the loop over its
\* items; after the last pass, or once 3 * max_results candidates are collected,
\* scout_github dedups and returns to main
ScoutQuery ==
  /\ pc = "scout"
  /\ \E data \in search_pool \ {SearchFails} :
       LET grown == CollectItems(candidates, ItemsOf(data), build_queries[query_i], max_results)
       IN IF Len(grown) >= max_results * 3 \/ query_i = Len(build_queries)
          THEN /\ discovered' = DedupAndSort(grown, max_results)
               /\ candidates' = grown
               /\ pc' = "merge"
               /\ UNCHANGED query_i
          ELSE /\ candidates' = grown
               /\ query_i' = query_i + 1
               /\ UNCHANGED <<pc, discovered>>
  /\ UNCHANGED <<search_pool, max_results, error>>
  /\ UNCHANGED <<exit_code, run_ts, existing, merged, inserted, inserted_items, broken,
                 probe_i, tools_before, written, probes>>
  /\ UNCHANGED <<docVars, mergeVars, scoreVars>>

\* http_get_json raises: the exception leaves scout_github for main's handler
ScoutFails ==
  /\ pc = "scout"
  /\ SearchFails \in search_pool
  /\ error' = [step |-> "search", message |-> "HTTP Error 403: rate limit exceeded"]
  /\ pc' = "handler"
  /\ UNCHANGED <<exit_code, run_ts, existing, merged, inserted, inserted_items, broken,
                 probe_i, tools_before, written, probes>>
  /\ UNCHANGED <<scoutVars, docVars, mergeVars, scoreVars>>

-----------------------------------------------------------------------------
(* SpecScout: scout_github(max_results) on bounded answers of the search provider *)

MaxResults == 1    \* largest --max
MaxItems == 2      \* most items in one answer of the search provider

ScoutItems ==
  { [name |-> "Foo", full_name |-> "acme/Foo", html_url |-> "https://github.com/acme/Foo"],
    [name |-> "FOO", full_name |-> "other/FOO", html_url |-> "https://github.com/other/FOO"],
    [name |-> "Bar", full_name |-> "acme/Bar", html_url |-> "https://github.com/acme/Bar"] }

ScoutAnswers ==
  {[items |-> its] : its \in SeqsUpTo(ScoutItems, MaxItems)} \cup {EmptyObj, SearchFails}

InitScout ==
  /\ MergeIdle
  /\ ScoreIdle
  /\ pc = "scout"
  /\ max_results \in 0..MaxResults
  /\ search_pool = ScoutAnswers
  /\ query_i = 1
  /\ candidates = <<>>
  /\ discovered = <<>>
  /\ exit_code = 0
  /\ error = EmptyObj
  /\ tools_json = [kind |-> "absent", value |-> <<>>]
  /\ meta_json = [kind |-> "absent", value |-> <<>>]
  /\ signals_json = [kind |-> "absent", value |-> <<>>]
  /\ run_ts = 1
  /\ existing = <<>>
  /\ merged = <<>>
  /\ inserted = 0
  /\ inserted_items = <<>>
  /\ broken = <<>>
  /\ probe_i = 0
  /\ tools_before = tools_json
  /\ written = {}
  /\ probes = <<>>

NextScout == ScoutQuery \/ ScoutFails

SpecScout == InitScout /\ [][NextScout]_vars

-----------------------------------------------------------------------------
(* The documents, the link checker and main *)

\* load_json(TOOLS_JSON, []) followed by the isinstance(existing, list) test: the
\* document is absent, or holds a list, or other JSON, or no JSON at all
LoadRaises(doc) == doc.kind = "invalid"

LoadedList(doc) == IF doc.kind = "list" THEN doc.value ELSE <<>>

\* what may happen to a save_json call: the file is written; or makedirs / open
\* raises and the file is as it was; or open has truncated the file and json.dump
\* raises part-way, which leaves no JSON in it
SaveOutcomes == {"written", "not opened", "torn"}

save_json(doc, obj, outcome) ==
  CASE outcome = "written" -> obj
    [] outcome = "not opened" -> doc
    [] OTHER -> [doc EXCEPT !.kind = "invalid", !.value = <<>>]

SaveError == [step |-> "save", message |-> "[Errno 28] No space left on device"]

\* what a HEAD request may end in: a response with a status, or an exception
ProbeOutcomes ==
  { [kind |-> "status", code |-> 200, message |-> ""],
    [kind |-> "status", code |-> 404, message |-> ""],
    [kind |-> "raises", code |-> 0, message |-> "timed out"] }

\* http_head_ok without its try / except: the exception reaches the caller
http_head_ok_no_try(url, outcome) ==
  IF outcome.kind = "status"
  THEN [raised |-> FALSE, ok |-> (200 <= outcome.code /\ outcome.code < 400),
        info |-> ToString(outcome.code)]
  ELSE [raised |-> TRUE, ok |-> FALSE, info |-> outcome.message]

\* (ok, info) = http_head_ok(url); raised tells whether the call raised instead
http_head_ok(url, outcome) ==
  IF outcome.kind = "status"
  THEN [raised |-> FALSE, ok |-> (200 <= outcome.code /\ outcome.code < 400),
        info |-> ToString(outcome.code)]
  ELSE [raised |-> FALSE, ok |-> FALSE, info |-> outcome.message]

ProbeLimit == 80    \* merged[:80]
SignalLimit == 50   \* inserted_items[:50]

\* for t in merged[:80] has no record left from index i on
ProbesDone(i, catalog) == i > Min(Len(catalog), ProbeLimit)

\* the NEW_TOOL signals of the signal document
NewToolSignals(items) ==
  [i \in 1..Min(Len(items), SignalLimit) |->
     [type |-> "NEW_TOOL",
      tool |-> Get(items[i], "ToolName", "None"),
      vendor |-> Get(items[i], "VendorOrganisation", "None"),
      evidence |-> SubSeq(GetOr(items[i], "EvidenceLinks", <<>>), 1, 1)]]

ToolsDoc(catalog) == [kind |-> "list", value |-> catalog]

MetaDoc(ts, catalog) ==
  [kind |-> "json",
   value |-> [lastRunUtc |-> ts, lastRunCommit |-> "GITHUB_SHA", toolsCount |-> Len(catalog)]]

SignalsDoc(ts, items, broken_links) ==
  [kind |-> "json",
   value |-> [generated_at_utc |-> ts, signals |-> NewToolSignals(items),
              broken_links |-> broken_links]]

ErrorDoc(ts, e) ==
  [kind |-> "json",
   value |-> [generated_at_utc |-> ts,
              signals |-> <<[type |-> "ERROR", message |-> e.message]>>,
              broken_links |-> <<>>]]

\* main up to the try: the catalog is loaded; a document that is no JSON makes
\* json.load raise outside the try, and the interpreter exits with status 1
Start ==
  /\ pc = "start"
  /\ IF LoadRaises(tools_json)
     THEN /\ pc' = "exited"
          /\ exit_code' = 1
          /\ error' = [step |-> "load", message |-> "Expecting value: line 1 column 1 (char 0)"]
          /\ UNCHANGED <<existing, query_i>>
     ELSE /\ existing' = LoadedList(tools_json)
          /\ pc' = "scout"
          /\ query_i' = 1
          /\ UNCHANGED <<exit_code, error>>
  /\ UNCHANGED <<run_ts, merged, inserted, inserted_items, broken, probe_i, tools_before,
                 written, probes>>
  /\ UNCHANGED <<search_pool, max_results, candidates, discovered>>
  /\ UNCHANGED <<docVars, mergeVars, scoreVars>>

\* merged, inserted, inserted_items = merge_tools(existing, discovered); broken = []
MergeStep ==
  /\ pc = "merge"
  /\ \E r \in {merge_tools(existing, discovered)} :
       /\ merged' = r.merged
       /\ inserted' = r.inserted
       /\ inserted_items' = r.inserted_items
       /\ pc' = IF ProbesDone(1, r.merged) THEN "save_tools" ELSE "probe"
  /\ broken' = <<>>
  /\ probe_i' = 1
  /\ UNCHANGED <<exit_code, error, run_ts, existing, tools_before, written, probes>>
  /\ UNCHANGED <<scoutVars, docVars, mergeVars, scoreVars>>

\* one pass of "for t in merged[:80]"
ProbeStep ==
  /\ pc = "probe"
  /\ LET t == merged[probe_i]
         links == GetOr(t, "EvidenceLinks", <<>>)
         next_pc == IF ProbesDone(probe_i + 1, merged) THEN "save_tools" ELSE "probe"
     IN IF links = <<>>
        THEN /\ pc' = next_pc
             /\ UNCHANGED <<broken, probes, error>>
        ELSE \E outcome \in ProbeOutcomes :
               \E r \in {http_head_ok(links[1], outcome)} :
                 /\ probes' = Append(probes, [i |-> probe_i, link |-> links[1], outcome |-> outcome])
                 /\ IF r.raised
                    THEN /\ error' = [step |-> "probe", message |-> r.info]
                         /\ pc' = "handler"
                         /\ UNCHANGED broken
                    ELSE /\ broken' = IF r.ok THEN broken
                                      ELSE Append(broken, [tool |-> Get(t, "ToolName", "None"),
                                                           link |-> links[1], info |-> r.info])
                         /\ pc' = next_pc
                         /\ UNCHANGED error
  /\ probe_i' = probe_i + 1
  /\ UNCHANGED <<exit_code, run_ts, existing, merged, inserted, inserted_items, tools_before,
                 written>>
  /\ UNCHANGED <<scoutVars, docVars, mergeVars, scoreVars>>

\* save_json(TOOLS_JSON, merged)
SaveTools ==
  /\ pc = "save_tools"
  /\ \E outcome \in SaveOutcomes :
       /\ tools_json' = save_json(tools_json, ToolsDoc(merged), outcome)
       /\ IF outcome = "written"
          THEN /\ written' = written \cup {"tools"}
               /\ pc' = "save_meta"
               /\ UNCHANGED error
          ELSE /\ error' = SaveError
               /\ pc' = "handler"
               /\ UNCHANGED written
  /\ UNCHANGED <<meta_json, signals_json>>
  /\ UNCHANGED <<exit_code, run_ts, existing, merged, inserted, inserted_items, broken,
                 probe_i, tools_before, probes>>
  /\ UNCHANGED <<scoutVars, mergeVars, scoreVars>>

\* save_json(META_JSON, {...})
SaveMeta ==
  /\ pc = "save_meta"
  /\ \E outcome \in SaveOutcomes :
       /\ meta_json' = save_json(meta_json, MetaDoc(run_ts, merged), outcome)
       /\ IF outcome = "written"
          THEN /\ written' = written \cup {"meta"}
               /\ pc' = "save_signals"
               /\ UNCHANGED error
          ELSE /\ error' = SaveError
               /\ pc' = "handler"
               /\ UNCHANGED written
  /\ UNCHANGED <<tools_json, signals_json>>
  /\ UNCHANGED <<exit_code, run_ts, existing, merged, inserted, inserted_items, broken,
                 probe_i, tools_before, probes>>
  /\ UNCHANGED <<scoutVars, mergeVars, scoreVars>>

\* save_json(SIGNALS_JSON, {...}); print("[OK] ..."); return 0
SaveSignals ==
  /\ pc = "save_signals"
  /\ \E outcome \in SaveOutcomes :
       /\ signals_json' = save_json(signals_json, SignalsDoc(run_ts, inserted_items, broken), outcome)
       /\ IF outcome = "written"
          THEN /\ written' = written \cup {"signals"}
               /\ pc' = "exited"
               /\ exit_code' = 0
               /\ UNCHANGED error
          ELSE /\ error' = SaveError
               /\ pc' = "handler"
               /\ UNCHANGED <<written, exit_code>>
  /\ UNCHANGED <<tools_json, meta_json>>
  /\ UNCHANGED <<run_ts, existing, merged, inserted, inserted_items, broken,
                 probe_i, tools_before, probes>>
  /\ UNCHANGED <<scoutVars, mergeVars, scoreVars>>

\* except Exception as e: the ERROR signal document is saved and main returns 1;
\* if that save raises too, the exception leaves main and the interpreter exits
\* with status 1 all the same
Handler ==
  /\ pc = "handler"
  /\ \E outcome \in SaveOutcomes :
       /\ signals_json' = save_json(signals_json, ErrorDoc(run_ts, error), outcome)
       /\ written' = IF outcome = "written" THEN written \cup {"signals"} ELSE written
  /\ pc' = "exited"
  /\ exit_code' = 1
  /\ UNCHANGED <<tools_json, meta_json>>
  /\ UNCHANGED <<error, run_ts, existing, merged, inserted, inserted_items, broken,
                 probe_i, tools_before, probes>>
  /\ UNCHANGED <<scoutVars, mergeVars, scoreVars>>

-----------------------------------------------------------------------------
(* Spec: one run of main on the documents it finds *)

MaxCatalog == 2   \* longest hand-written catalog before the first run
LongLen == 81     \* length of the one long catalog

Digits == "0123456789"

\* "tool-01", "tool-02", ...
LongName(i) == "tool-" \o CharAt(Digits, (i \div 10) + 1) \o CharAt(Digits, (i % 10) + 1)

\* a sorted catalog longer than the validator's prefix; only the records around
\* the end of the prefix have evidence links
LongCatalog ==
  [i \in 1..LongLen |->
     [ToolName |-> LongName(i),
      EvidenceLinks |-> IF i >= ProbeLimit - 1
                        THEN <<"https://example.org/" \o LongName(i)>> ELSE <<>>,
      Notes |-> "seed"]]

RunPool ==
  { [ToolName |-> "Apex", EvidenceLinks |-> <<"https://apex.example">>, Notes |-> "seed"],
    [ToolName |-> "Bar", EvidenceLinks |-> <<>>, Notes |-> "seed"],
    [EvidenceLinks |-> <<"https://anonymous.example">>, Notes |-> "seed"] }

RunCatalogs == SeqsUpTo(RunPool, MaxCatalog) \cup {LongCatalog}

RunAnswers ==
  { EmptyObj,
    [items |-> <<[name |-> "apex", full_name |-> "acme/apex",
                  html_url |-> "https://github.com/acme/apex"]>>],
    SearchFails }

Init ==
  /\ MergeIdle
  /\ ScoreIdle
  /\ pc = "start"
  /\ exit_code = 0
  /\ error = EmptyObj
  /\ tools_json \in {[kind |-> k, value |-> <<>>] : k \in {"absent", "invalid", "object"}}
                      \cup {ToolsDoc(c) : c \in RunCatalogs}
  /\ meta_json = [kind |-> "absent", value |-> <<>>]
  /\ signals_json = [kind |-> "absent", value |-> <<>>]
  /\ search_pool = RunAnswers
  /\ max_results \in 0..MaxResults
  /\ run_ts = 1
  /\ existing = <<>>
  /\ discovered = <<>>
  /\ merged = <<>>
  /\ inserted = 0
  /\ inserted_items = <<>>
  /\ broken = <<>>
  /\ probe_i = 0
  /\ query_i = 0
  /\ candidates = <<>>
  /\ tools_before = tools_json
  /\ written = {}
  /\ probes = <<>>

Next ==
  \/ Start
  \/ ScoutQuery
  \/ ScoutFails
  \/ MergeStep
  \/ ProbeStep
  \/ SaveTools
  \/ SaveMeta
  \/ SaveSignals
  \/ Handler

Spec == Init /\ [][Next]_vars

-----------------------------------------------------------------------------
(* Properties of merge_tools (SpecMerge) *)

NameOf(r) == Get(r, "ToolName", "")

\* the dedup key of a record: its normalized name
NameKey(r) == normalize_name(NameOf(r))

\* the records of a catalog that have a non-empty ToolName
Named(catalog) == {i \in DOMAIN catalog : Truthy(catalog[i], "ToolName")}

\* no later named record of the catalog has the key of the i-th
LastOfKey(catalog, i) ==
  \A j \in Named(catalog) : j > i => NameKey(catalog[j]) # NameKey(catalog[i])

Merged == m_phase \in {"merged", "remerged"}

FooVariants == {"foo", "FOO ", "  Foo"}

HoldsFoo(catalog) == \E i \in Named(catalog) : catalog[i].ToolName = "Foo"

\* a non-empty batch made of "foo", "FOO " and "  Foo"
FooBatch(batch) == batch # <<>> /\ \A j \in DOMAIN batch : NameOf(batch[j]) \in FooVariants

\* an inserted candidate is the first of the batch with its key, and no existing record has the key
InsertsOnlyFreshKeys ==
  /\ m_inserted = Len(m_inserted_items)
  /\ \A j \in DOMAIN m_inserted_items :
       \E p \in DOMAIN m_new :
         /\ m_new[p] = m_inserted_items[j]
         /\ \A i \in DOMAIN m_existing : NameKey(m_existing[i]) # NameKey(m_new[p])
         /\ \A q \in 1..(p - 1) : NameKey(m_new[q]) # NameKey(m_new[p])

\* the merged record under the key of an existing named record is an existing record
NeverReplaces ==
  \A i \in DOMAIN m_merged :
    (\E e \in Named(m_existing) : NameKey(m_existing[e]) = NameKey(m_merged[i]))
      => m_merged[i] \in Range(m_existing)

\* C1 as stated: a candidate is inserted only under a key that no existing record
\* and no earlier candidate has, no existing record is replaced, and for ANY
\* existing catalog holding "Foo" and a batch of "foo", "FOO ", "  Foo" nothing is
\* inserted and the "Foo" record is in the merged output unchanged.
C1_FooKeptInAnyCatalog ==
  Merged =>
    /\ InsertsOnlyFreshKeys
    /\ NeverReplaces
    /\ (HoldsFoo(m_existing) /\ FooBatch(m_new)) =>
         /\ m_inserted = 0
         /\ \A i \in Named(m_existing) :
              m_existing[i].ToolName = "Foo" => m_existing[i] \in Range(m_merged)

\* C1 amended: as C1, but the record the merged output holds under the key "foo"
\* is the LAST existing record whose name normalizes to "foo": the "Foo" record
\* itself, unchanged, unless a later existing record has the same normalized name.
C1_FooKeptUnlessShadowed ==
  Merged =>
    /\ InsertsOnlyFreshKeys
    /\ NeverReplaces
    /\ (HoldsFoo(m_existing) /\ FooBatch(m_new)) =>
         /\ m_inserted = 0
         /\ m_inserted_items = <<>>
         /\ \A i \in Named(m_existing) :
              (NameKey(m_existing[i]) = "foo" /\ LastOfKey(m_existing, i))
                => /\ m_existing[i] \in Range(m_merged)
                   /\ \A j \in DOMAIN m_merged :
                        NameKey(m_merged[j]) = "foo" => m_merged[j] = m_existing[i]

\* C1's case: a catalog holding "Foo" met a batch of two of its spellings
C1_Witness ==
  /\ m_phase = "merged"
  /\ HoldsFoo(m_existing)
  /\ FooBatch(m_new)
  /\ Len(m_new) = 2
  /\ m_new[1].ToolName # m_new[2].ToolName
  /\ \E i \in DOMAIN m_merged : m_merged[i].ToolName = "Foo" /\ m_merged[i].Notes = "seed"

\* C2: after every merge_tools call, for any existing catalog and any batch and
\* after any sequence of merges into the previous output, no two records of the
\* merged catalog have the same normalized ToolName.
C2_UniqueKeys ==
  Merged =>
    \A i, j \in DOMAIN m_merged : i # j => NameKey(m_merged[i]) # NameKey(m_merged[j])

\* C2's case: a later merge into a catalog of several records, offered a colliding name
C2_Witness ==
  /\ m_phase = "merged"
  /\ \E i \in DOMAIN m_existing : m_existing[i].Notes = "discovered"
  /\ Len(m_merged) >= 3
  /\ \E j \in DOMAIN m_new, i \in DOMAIN m_existing : NameKey(m_new[j]) = NameKey(m_existing[i])

SortedByName(catalog) ==
  \A i, j \in DOMAIN catalog : i < j => StrLess(SortKey(catalog[i]), SortKey(catalog[j]))

\* every record named, names strictly ascending (lowercased), no two names colliding
WellFormed(catalog) ==
  /\ Named(catalog) = DOMAIN catalog
  /\ SortedByName(catalog)
  /\ \A i, j \in DOMAIN catalog : i # j => NameKey(catalog[i]) # NameKey(catalog[j])

\* C3 as stated: merging the empty batch returns ANY catalog unchanged, whatever
\* its order, its missing or empty names and its colliding names.
C3_EmptyBatchReturnsAnyCatalog ==
  (Merged /\ m_new = <<>>) =>
    /\ m_merged = m_existing
    /\ m_inserted = 0
    /\ m_inserted_items = <<>>

\* C3 amended: merging the empty batch inserts nothing and returns the records
\* of the catalog that have a non-empty ToolName, one per normalized name (the
\* last of the catalog with that name), sorted by lowercased ToolName; so it
\* returns the catalog unchanged when the catalog is sorted that way and has no
\* missing or empty name and no colliding names.
C3_EmptyBatchNormalizes ==
  (Merged /\ m_new = <<>>) =>
    /\ m_inserted = 0
    /\ m_inserted_items = <<>>
    /\ Range(m_merged) = {m_existing[i] : i \in {n \in Named(m_existing) : LastOfKey(m_existing, n)}}
    /\ Len(m_merged) = Cardinality({NameKey(m_existing[i]) : i \in Named(m_existing)})
    /\ SortedByName(m_merged)
    /\ WellFormed(m_existing) => m_merged = m_existing

\* C3's case: the empty batch met a catalog that is out of order and holds a
\* nameless record
C3_Witness ==
  /\ m_phase = "merged"
  /\ m_new = <<>>
  /\ Len(m_existing) = 2
  /\ Named(m_existing) = {1}
  /\ m_merged = <<m_existing[1]>>

\* C7: merging the same batch again into the output of the merge returns that
\* output, same records in the same order, with no insertion.
C7_RemergeChangesNothing ==
  m_phase = "remerged" =>
    /\ m_merged = m_existing
    /\ m_inserted = 0
    /\ m_inserted_items = <<>>

\* C7's case: the batch of the second merge holds two candidates the first merge inserted
C7_Witness ==
  /\ m_phase = "remerged"
  /\ Len(m_new) = 2
  /\ m_new[1] # m_new[2]
  /\ \A j \in DOMAIN m_new : m_new[j] \in Range(m_existing) /\ m_new[j].Notes = "discovered"
  /\ \E i \in DOMAIN m_existing : m_existing[i].Notes = "seed"

-----------------------------------------------------------------------------
(* Properties of the scorer and the classifier (SpecScore) *)

\* C8: each of the seven entries of the Scores mapping the builder computes is an
\* integer in 0..5, whatever the stars, forks, open issues, timestamps and text,
\* and so is ai_value of any AI-involvement value; Maturity for stars = 0,
\* age_years = 0 and updated_days = 99999 is 0.
C8_ScoresWithinBounds ==
  s_phase = "built" =>
    /\ DOMAIN s_record.Scores = Range(DIMENSIONS)
    /\ \A d \in DOMAIN s_record.Scores : s_record.Scores[d] \in 0..5
    /\ \A ai \in {s_locals.ai, "none", "assisted", "core", "autonomous"} : ai_value(ai) \in 0..5
    /\ (s_locals.stars = 0 /\ s_locals.age_years.num = 0 /\ s_locals.updated_days = 99999)
         => s_record.Scores.Maturity = 0

\* C8's case: no stars, no age, never updated: the raw maturity is 1 - 2 = -1
C8_Witness ==
  /\ s_phase = "built"
  /\ s_locals.stars = 0
  /\ s_locals.age_years.num = 0
  /\ s_locals.updated_days = 99999
  /\ s_record.Scores.Maturity = 0

\* the tier rule of the specification, first match first
TierRule(m, a) ==
  CASE m >= 4 /\ a >= 3 -> "Adopt"
    [] m < 4 /\ m >= 3 /\ a >= 3 -> "Trial"
    [] ~(m >= 3 /\ a >= 3) /\ m >= 2 -> "Assess"
    [] OTHER -> "Hold"

\* C9: for every Maturity and AIValue in 0..5 classify returns the first matching
\* tier of the rule; with AIValue >= 3, Maturity 2, 3, 4 gives Assess, Trial, Adopt.
C9_ClassifyFollowsRule ==
  (s_phase = "classified" /\ DOMAIN s_scores = {"Maturity", "AIValue"}) =>
    /\ s_class = TierRule(s_scores.Maturity, s_scores.AIValue)
    /\ s_scores.AIValue >= 3 =>
         /\ s_scores.Maturity = 2 => s_class = "Assess"
         /\ s_scores.Maturity = 3 => s_class = "Trial"
         /\ s_scores.Maturity = 4 => s_class = "Adopt"

\* C9's case: the highest tier, reached by its two thresholds exactly
C9_Witness ==
  /\ s_phase = "classified"
  /\ DOMAIN s_scores = {"Maturity", "AIValue"}
  /\ s_scores.Maturity = 4
  /\ s_scores.AIValue = 3
  /\ s_class = "Adopt"

-----------------------------------------------------------------------------
(* Properties of scout_github (SpecScout) *)

\* C10: for every integer max_results, 0 included, scout_github stops collecting
\* once the candidates number 3 * max_results, and returns at most max_results
\* records, no two with the same normalized ToolName, each the earliest collected
\* candidate with that name.
C10_AtMostMaxResults ==
  /\ Len(candidates) <= 3 * max_results
  /\ pc = "merge" =>
       /\ Len(discovered) <= max_results
       /\ \A i, j \in DOMAIN discovered :
            i # j => NameKey(discovered[i]) # NameKey(discovered[j])
       /\ \A i \in DOMAIN discovered :
            \E p \in DOMAIN candidates :
              /\ candidates[p] = discovered[i]
              /\ \A q \in 1..(p - 1) : NameKey(candidates[q]) # NameKey(candidates[p])

-----------------------------------------------------------------------------
(* Properties of main (Spec) *)

Failed == pc = "exited" /\ exit_code = 1
Succeeded == pc = "exited" /\ exit_code = 0

\* C4: a run that ends in failure (exit code 1), whichever step failed, leaves the
\* catalog document with the content it had before the run.
C4_FailedRunLeavesCatalog == Failed => tools_json = tools_before

\* C5: a run exits with code 0 only after writing all three documents, and with
\* code 1 only after writing a signal document whose signals are exactly one
\* ERROR entry and whose broken_links is empty, at whichever step it failed,
\* loading the catalog included.
C5_ExitCodeFollowsDocuments ==
  /\ Succeeded => written = {"tools", "meta", "signals"}
  /\ Failed =>
       /\ "signals" \in written
       /\ signals_json.kind = "json"
       /\ Len(signals_json.value.signals) = 1
       /\ signals_json.value.signals[1].type = "ERROR"
       /\ DOMAIN signals_json.value.signals[1] = {"type", "message"}
       /\ signals_json.value.broken_links = <<>>

\* a probe that did not find the link reachable: a status outside 2xx/3xx, or an
\* exception
ProbeFailed(outcome) ==
  outcome.kind = "raises" \/ outcome.code < 200 \/ outcome.code > 399

\* the records the validator is to probe: those of the first 80 with an evidence link
ToProbe(catalog) ==
  {i \in DOMAIN catalog : i <= 80 /\ GetOr(catalog[i], "EvidenceLinks", <<>>) # <<>>}

\* one {tool, link, info} entry per failed probe of the log, in the log's order
BrokenOf(log, catalog) ==
  LET failed == SelectSeq(log, LAMBDA p : ProbeFailed(p.outcome))
  IN [n \in DOMAIN failed |->
        [tool |-> Get(catalog[failed[n].i], "ToolName", "None"),
         link |-> catalog[failed[n].i].EvidenceLinks[1],
         info |-> IF failed[n].outcome.kind = "raises" THEN failed[n].outcome.message
                  ELSE ToString(failed[n].outcome.code)]]

ProbesOver == pc \in {"save_tools", "save_meta", "save_signals"} \/ Succeeded

\* C6: a failed link probe never aborts the run: whatever the link checker's
\* outcome (reachable, status outside 2xx/3xx, exception), no probe sends the run
\* to the failure handler, and the run goes on to write the catalog; only records
\* among the first 80 of the merged catalog that have an evidence link are probed,
\* each once, on its first link; and broken_links holds exactly one
\* {tool, link, info} entry for each of them whose probe failed.
C6_FailedProbeNeverAborts ==
  /\ pc = "handler" => error.step # "probe"
  /\ \A k \in DOMAIN probes :
       /\ probes[k].i \in ToProbe(merged)
       /\ probes[k].link = merged[probes[k].i].EvidenceLinks[1]
       /\ \A l \in DOMAIN probes : k < l => probes[k].i < probes[l].i
  /\ broken = BrokenOf(probes, merged)
  /\ ProbesOver => {probes[k].i : k \in DOMAIN probes} = ToProbe(merged)
  /\ Succeeded => signals_json.value.broken_links = broken

\* C6's case: a catalog longer than 80 records, with linked records past the
\* 80th and unlinked ones before it; one probe raised, another answered 404, the
\* 80th record was probed, and the run is about to write the catalog
C6_Witness ==
  /\ pc = "save_tools"
  /\ Len(merged) > 80
  /\ \E i \in DOMAIN merged : i > 80 /\ GetOr(merged[i], "EvidenceLinks", <<>>) # <<>>
  /\ \E i \in DOMAIN merged : i < 80 /\ GetOr(merged[i], "EvidenceLinks", <<>>) = <<>>
  /\ \E k \in DOMAIN probes : probes[k].outcome.kind = "raises"
  /\ \E k \in DOMAIN probes : probes[k].outcome.kind = "status" /\ probes[k].outcome.code = 404
  /\ \E k \in DOMAIN probes : probes[k].i = 80
  /\ Len(broken) = 2

====
